---------------------------- MODULE Spec2Model ----------------------------
(***************************************************************************)
(* Model of src/src/match.py: reference and name normalisation, the three  *)
(* signal scorers, the composite match_score and the two matchers          *)
(* find_attachment / find_transaction.                                     *)
(*                                                                         *)
(* Encoding.                                                               *)
(*   - A Python str is a sequence of one-character strings.                *)
(*   - An optional value is None == <<>> or Some(v) == <<v>>.              *)
(*   - Amounts are integers in cents; scores are integers in tenths        *)
(*     (1.0 is 10, the composite 9.0 is 90, THRESHOLD 3.5 is 35).          *)
(*   - A date field is a record describing the ISO string it holds.        *)
(*   - A call that raises TypeError yields the value TypeError.            *)
(***************************************************************************)
EXTENDS Integers, Sequences, FiniteSets

VARIABLES
    raw,        \* SpecNorm: the value handed to the normalisers
    ref_out,    \* SpecNorm: results of successive normalize_ref applications
    name_out,   \* SpecNorm: result of normalize_name(raw), once called
    tx,         \* SpecScore: the transaction handed to the scorers
    att,        \* SpecScore: the attachment handed to the scorers
    scored,     \* SpecScore: the last scorer call and what it returned
    txs,        \* Spec: the transaction list of the fixture
    atts,       \* Spec: the attachment list of the fixture
    fa,         \* Spec: the last find_attachment call and its frame at exit
    ft          \* Spec: the last find_transaction call and its frame at exit

vars == <<raw, ref_out, name_out, tx, att, scored, txs, atts, fa, ft>>

----------------------------------------------------------------------------
(* Optional values and Python strings *)

None == <<>>

Some(v) == <<v>>

IsNone(x) == x = None

\* v of Some(v)
Val(x) == x[1]

LowerLetters ==
    <<"a","b","c","d","e","f","g","h","i","j","k","l","m",
      "n","o","p","q","r","s","t","u","v","w","x","y","z">>

UpperLetters ==
    <<"A","B","C","D","E","F","G","H","I","J","K","L","M",
      "N","O","P","Q","R","S","T","U","V","W","X","Y","Z">>

\* the position in the alphabet of every letter, lower or upper case
LetterIndex ==
    [c \in {LowerLetters[i] : i \in 1..26} \cup {UpperLetters[i] : i \in 1..26} |->
        CHOOSE i \in 1..26 : LowerLetters[i] = c \/ UpperLetters[i] = c]

\* str.upper() on one character
CharUpper(c) ==
    IF c \in DOMAIN LetterIndex THEN UpperLetters[LetterIndex[c]] ELSE c

\* str.lower() on one character
CharLower(c) ==
    IF c \in DOMAIN LetterIndex THEN LowerLetters[LetterIndex[c]] ELSE c

StrUpper(s) == [i \in 1..Len(s) |-> CharUpper(s[i])]

StrLower(s) == [i \in 1..Len(s) |-> CharLower(s[i])]

\* s.startswith(p)
StartsWith(s, p) == Len(s) >= Len(p) /\ SubSeq(s, 1, Len(p)) = p

\* s.endswith(p)
EndsWith(s, p) == Len(s) >= Len(p) /\ SubSeq(s, Len(s) - Len(p) + 1, Len(s)) = p

\* s[n:]
DropFirst(s, n) == SubSeq(s, n + 1, Len(s))

\* s[:-n]
DropLast(s, n) == SubSeq(s, 1, Len(s) - n)

\* s.replace(c, "")
RemoveChar(s, c) == SelectSeq(s, LAMBDA x : x # c)

\* the number of characters c that s starts with
Leading(s, c) ==
    CHOOSE n \in 0..Len(s) :
        /\ \A i \in 1..n : s[i] = c
        /\ n = Len(s) \/ s[n + 1] # c

\* the number of characters c that s ends with
Trailing(s, c) ==
    CHOOSE n \in 0..Len(s) :
        /\ \A i \in 1..n : s[Len(s) + 1 - i] = c
        /\ n = Len(s) \/ s[Len(s) - n] # c

\* s.lstrip(c)
LStrip(s, c) == DropFirst(s, Leading(s, c))

\* s.rstrip(c)
RStrip(s, c) == DropLast(s, Trailing(s, c))

\* s.strip(), the whitespace of the model being the space character
Strip(s) == RStrip(LStrip(s, " "), " ")

----------------------------------------------------------------------------
(* Reference handling *)

normalize_ref(ref) ==
    IF IsNone(ref) \/ Val(ref) = <<>> THEN None
    ELSE LET upper    == StrUpper(Val(ref))
             stripped == IF StartsWith(upper, <<"R", "F">>)
                         THEN DropFirst(upper, 2) ELSE upper
             unspaced == RemoveChar(stripped, " ")
             unpadded == LStrip(unspaced, "0")
             lowered  == StrLower(unpadded)
         IN  IF lowered = <<>> THEN None ELSE Some(lowered)

----------------------------------------------------------------------------
(* Name normalisation *)

Suffixes == << <<" ","o","y","j">>, <<" ","o","y">>, <<" ","a","b">>, <<" ","t","m","i">> >>

\* one pass of the suffix loop: if s.endswith(suffix): s = s[: -len(suffix)].strip()
StripSuffix(s, suffix) ==
    IF EndsWith(s, suffix) THEN Strip(DropLast(s, Len(suffix))) ELSE s

\* the suffix loop: it has no break, so every suffix is tried in turn on the
\* current value of s
StripSuffixes(s) ==
    StripSuffix(StripSuffix(StripSuffix(StripSuffix(s,
        Suffixes[1]), Suffixes[2]), Suffixes[3]), Suffixes[4])

normalize_name(name) ==
    IF IsNone(name) \/ Val(name) = <<>> THEN None
    ELSE LET s == StripSuffixes(StrLower(Strip(Val(name))))
         IN  IF s = <<>> THEN None ELSE Some(s)

----------------------------------------------------------------------------
(* Records.                                                                *)
(* A transaction is [reference, amount, date, contact]; an attachment is   *)
(* [data], data being None or                                              *)
(* [reference, total_amount, invoicing_date, receiving_date, due_date,     *)
(*  issuer, recipient, supplier]. Every field is optional.                 *)
(* A date string is [form, day, hour, off]: form "empty" is "", form       *)
(* "malformed" is a string datetime.fromisoformat rejects, form "date" is  *)
(* YYYY-MM-DD, form "naive" is a datetime without UTC offset, form "aware" *)
(* is a datetime with the UTC offset off (in hours).                       *)

\* the {} that `attachment.get("data") or {}` falls back to
EmptyData ==
    [reference |-> None, total_amount |-> None, invoicing_date |-> None,
     receiving_date |-> None, due_date |-> None,
     issuer |-> None, recipient |-> None, supplier |-> None]

\* data = attachment.get("data") or {}
DataOf(attachment) ==
    IF IsNone(attachment.data) THEN EmptyData ELSE Val(attachment.data)

get_transaction_reference(transaction) == normalize_ref(transaction.reference)

get_attachment_reference(attachment) == normalize_ref(DataOf(attachment).reference)

get_transaction_amount(transaction) == transaction.amount

get_attachment_amount(attachment) == DataOf(attachment).total_amount

HoursPerDay == 24

\* the value a raising call yields
TypeError == -1

\* a parsed datetime is [aware, hours]: hours since the epoch of the model,
\* in UTC when the datetime is offset-aware and in local time when it is not
parse_date(value) ==
    IF IsNone(value) THEN None
    ELSE LET v == Val(value)
         IN  IF v.form \in {"empty", "malformed"} THEN None
             ELSE IF v.form = "aware"
                  THEN Some([aware |-> TRUE,
                             hours |-> v.day * HoursPerDay + v.hour - v.off])
                  ELSE Some([aware |-> FALSE,
                             hours |-> v.day * HoursPerDay + v.hour])

\* Python truthiness of an optional date string
Truthy(value) == ~IsNone(value) /\ Val(value).form # "empty"

get_transaction_date(transaction) == parse_date(transaction.date)

\* x or y or z, then parse_date
get_attachment_date(attachment) ==
    LET data == DataOf(attachment)
        date_str == IF Truthy(data.invoicing_date) THEN data.invoicing_date
                    ELSE IF Truthy(data.receiving_date) THEN data.receiving_date
                    ELSE data.due_date
    IN  parse_date(date_str)

get_transaction_name(transaction) == normalize_name(transaction.contact)

ExampleCompanyOy ==
    <<"E","x","a","m","p","l","e"," ","C","o","m","p","a","n","y"," ","O","y">>

\* company = normalize_name("Example Company Oy")
company == normalize_name(Some(ExampleCompanyOy))

\* candidates = [n for n in (issuer, recipient, supplier) if n and n != company]
candidates(issuer, recipient, supplier) ==
    SelectSeq(<<issuer, recipient, supplier>>, LAMBDA n : ~IsNone(n) /\ n # company)

\* candidates[0] if candidates else None
FirstOrNone(list) == IF list = <<>> THEN None ELSE list[1]

get_attachment_counterparty(attachment) ==
    FirstOrNone(candidates(normalize_name(DataOf(attachment).issuer),
                           normalize_name(DataOf(attachment).recipient),
                           normalize_name(DataOf(attachment).supplier)))

----------------------------------------------------------------------------
(* Scoring *)

Abs(x) == IF x < 0 THEN 0 - x ELSE x

CentsPerUnit == 100

amount_score(transaction, attachment) ==
    LET tx_amount  == get_transaction_amount(transaction)
        att_amount == get_attachment_amount(attachment)
    IN  IF IsNone(tx_amount) \/ IsNone(att_amount) THEN 0
        ELSE LET diff == Abs(Abs(Val(tx_amount)) - Abs(Val(att_amount)))
             IN  IF diff < 1 THEN 10                  \* diff < 0.01
                 ELSE IF diff <= CentsPerUnit THEN 6  \* diff <= 1.0
                 ELSE 0

\* timedelta.days: the difference in whole days, rounded towards minus infinity
DeltaDays(hours) ==
    IF hours >= 0 THEN hours \div HoursPerDay
    ELSE 0 - ((0 - hours + HoursPerDay - 1) \div HoursPerDay)

\* date_score whose weakest tier is worth 0.1
date_score_weak_tier(transaction, attachment) ==
    LET tx_date  == get_transaction_date(transaction)
        att_date == get_attachment_date(attachment)
    IN  IF IsNone(tx_date) \/ IsNone(att_date) THEN 0
        ELSE IF Val(tx_date).aware # Val(att_date).aware THEN TypeError
        ELSE LET days == Abs(DeltaDays(Val(tx_date).hours - Val(att_date).hours))
             IN  IF days <= 2 THEN 10
                 ELSE IF days <= 5 THEN 8
                 ELSE IF days <= 10 THEN 5
                 ELSE IF days <= 20 THEN 1
                 ELSE 0

\* tx_date - att_date raises TypeError when exactly one of the two datetimes
\* carries a UTC offset
date_score(transaction, attachment) ==
    LET tx_date  == get_transaction_date(transaction)
        att_date == get_attachment_date(attachment)
    IN  IF IsNone(tx_date) \/ IsNone(att_date) THEN 0
        ELSE IF Val(tx_date).aware # Val(att_date).aware THEN TypeError
        ELSE LET days == Abs(DeltaDays(Val(tx_date).hours - Val(att_date).hours))
             IN  IF days <= 2 THEN 10
                 ELSE IF days <= 5 THEN 8
                 ELSE IF days <= 10 THEN 5
                 ELSE IF days <= 20 THEN 2
                 ELSE 0

\* length of the common run of a[i..ahi] and b[j..bhi] that starts at i and j
RECURSIVE RunLength(_, _, _, _, _, _)
RunLength(a, b, i, j, ahi, bhi) ==
    IF i <= ahi /\ j <= bhi /\ a[i] = b[j]
    THEN 1 + RunLength(a, b, i + 1, j + 1, ahi, bhi)
    ELSE 0

\* SequenceMatcher.find_longest_match on a[alo..ahi], b[blo..bhi] (no junk):
\* the longest matching block, the earliest in a, then the earliest in b
find_longest_match(a, b, alo, ahi, blo, bhi) ==
    LET size == [i \in alo..ahi, j \in blo..bhi |-> RunLength(a, b, i, j, ahi, bhi)]
        sizes == {size[c] : c \in DOMAIN size}
        longest == CHOOSE n \in sizes : \A m \in sizes : m <= n
        blocks == {c \in DOMAIN size : size[c] = longest}
        best == CHOOSE c \in blocks :
                   \A d \in blocks : c[1] < d[1] \/ (c[1] = d[1] /\ c[2] <= d[2])
    IN  [i |-> best[1], j |-> best[2], size |-> longest]

\* the number of matched characters SequenceMatcher.get_matching_blocks finds
RECURSIVE MatchedChars(_, _, _, _, _, _)
MatchedChars(a, b, alo, ahi, blo, bhi) ==
    IF alo > ahi \/ blo > bhi THEN 0
    ELSE LET m == find_longest_match(a, b, alo, ahi, blo, bhi)
         IN  IF m.size = 0 THEN 0
             ELSE m.size
                  + MatchedChars(a, b, alo, m.i - 1, blo, m.j - 1)
                  + MatchedChars(a, b, m.i + m.size, ahi, m.j + m.size, bhi)

\* SequenceMatcher(None, a, b).ratio() is 2.0 * matched / total, and 1.0 when
\* total is 0
Similarity(a, b) ==
    [matched |-> MatchedChars(a, b, 1, Len(a), 1, Len(b)), total |-> Len(a) + Len(b)]

\* similarity >= percent / 100
AtLeast(similarity, percent) ==
    IF similarity.total = 0 THEN TRUE
    ELSE 200 * similarity.matched >= percent * similarity.total

\* the tiers of name_score, from the ratio of the two names
similarity_score(similarity) ==
    IF AtLeast(similarity, 98) THEN 10
    ELSE IF AtLeast(similarity, 90) THEN 6
    ELSE 0

\* name_score from the two normalized names
names_score(tx_name, att_name) ==
    IF IsNone(tx_name) \/ IsNone(att_name) THEN 0
    ELSE similarity_score(Similarity(Val(tx_name), Val(att_name)))

name_score(transaction, attachment) ==
    names_score(get_transaction_name(transaction),
                get_attachment_counterparty(attachment))

\* the gates and the sum of match_score, from its locals, in tenths;
\* date_score raising ends the call before any gate is looked at
combined_score(a, d, n, has_both_names) ==
    IF d = TypeError THEN TypeError
    ELSE IF a < 10 THEN 0
    ELSE IF d <= 0 THEN 0
    ELSE IF has_both_names /\ n <= 0 THEN 0
    ELSE 3 * a + 3 * d + 3 * n

\* match_score is 3.0 * a + 3.0 * d + 3.0 * n behind its gates
match_score(transaction, attachment) ==
    combined_score(amount_score(transaction, attachment),
                   date_score(transaction, attachment),
                   name_score(transaction, attachment),
                   /\ ~IsNone(get_transaction_name(transaction))
                   /\ ~IsNone(get_attachment_counterparty(attachment)))

----------------------------------------------------------------------------
(* Main matching functions *)

THRESHOLD == 35

MARGIN == 10

\* the locals of the heuristic phase before its loop: best is a position of
\* the candidate list, 0 for None
NoBest == [best |-> 0, best_score |-> 0, second_best |-> 0, raised |-> FALSE]

\* the frame of a matcher call at its exit: result is the position of the
\* returned candidate (0 for None), exit says which return statement was taken
Exit(how, result, acc) ==
    [raised |-> acc.raised, result |-> result, exit |-> how,
     best |-> acc.best, best_score |-> acc.best_score,
     second_best |-> acc.second_best]

\* phase 1 of find_attachment comparing the reference of the candidate as it
\* is written, not normalized
RECURSIVE attachment_ref_matches_raw(_, _, _)
attachment_ref_matches_raw(tx_ref, attachments, k) ==
    IF k > Len(attachments) THEN <<>>
    ELSE LET att_ref == DataOf(attachments[k]).reference
         IN  (IF ~IsNone(att_ref) /\ att_ref = tx_ref THEN <<k>> ELSE <<>>)
             \o attachment_ref_matches_raw(tx_ref, attachments, k + 1)

\* phase 1 of find_attachment: the positions whose reference equals tx_ref
RECURSIVE attachment_ref_matches(_, _, _)
attachment_ref_matches(tx_ref, attachments, k) ==
    IF k > Len(attachments) THEN <<>>
    ELSE LET att_ref == get_attachment_reference(attachments[k])
         IN  (IF ~IsNone(att_ref) /\ att_ref = tx_ref THEN <<k>> ELSE <<>>)
             \o attachment_ref_matches(tx_ref, attachments, k + 1)

\* the update of best, best_score and second_best without the elif that
\* tracks the runner-up
attachment_update_no_runner_up(k, score, acc) ==
    IF score = TypeError THEN [acc EXCEPT !.raised = TRUE]
    ELSE IF score > acc.best_score
    THEN [best |-> k, best_score |-> score,
          second_best |-> acc.best_score, raised |-> FALSE]
    ELSE acc

\* the update of best, best_score and second_best in find_attachment, by the
\* score of attachments[k]; a raising match_score ends the call
attachment_update(k, score, acc) ==
    IF score = TypeError THEN [acc EXCEPT !.raised = TRUE]
    ELSE IF score > acc.best_score
    THEN [best |-> k, best_score |-> score,
          second_best |-> acc.best_score, raised |-> FALSE]
    ELSE IF score > acc.second_best
    THEN [acc EXCEPT !.second_best = score]
    ELSE acc

\* the loop body of find_attachment that skips a candidate only for the
\* reference of the candidate, also when the anchor has one
attachment_step_any_anchor(transaction, attachments, tx_ref, k, acc) ==
    IF ~IsNone(get_attachment_reference(attachments[k]))
    THEN acc
    ELSE attachment_update(k, match_score(transaction, attachments[k]), acc)

\* one pass of the loop of find_attachment, on attachments[k]
attachment_step(transaction, attachments, tx_ref, k, acc) ==
    IF ~IsNone(tx_ref) \/ ~IsNone(get_attachment_reference(attachments[k]))
    THEN acc
    ELSE attachment_update(k, match_score(transaction, attachments[k]), acc)

\* phase 2 of find_attachment: the loop over attachments[k..], from the locals acc
RECURSIVE attachment_scan(_, _, _, _, _)
attachment_scan(transaction, attachments, tx_ref, k, acc) ==
    IF k > Len(attachments) \/ acc.raised THEN acc
    ELSE attachment_scan(transaction, attachments, tx_ref, k + 1,
                         attachment_step(transaction, attachments, tx_ref, k, acc))

\* the returns of find_attachment after the loop
attachment_decision(acc) ==
    IF acc.raised THEN Exit("raise", 0, acc)
    ELSE IF acc.best = 0 THEN Exit("no best", 0, acc)
    ELSE IF acc.best_score < THRESHOLD THEN Exit("threshold", 0, acc)
    ELSE IF acc.best_score - acc.second_best < MARGIN THEN Exit("margin", 0, acc)
    ELSE Exit("best", acc.best, acc)

find_attachment(transaction, attachments) ==
    LET tx_ref == get_transaction_reference(transaction)
        ref_matches == IF IsNone(tx_ref) THEN <<>>
                       ELSE attachment_ref_matches(tx_ref, attachments, 1)
    IN  IF Len(ref_matches) = 1 THEN Exit("reference", ref_matches[1], NoBest)
        ELSE IF Len(ref_matches) > 1 THEN Exit("ambiguous", 0, NoBest)
        ELSE attachment_decision(
                 attachment_scan(transaction, attachments, tx_ref, 1, NoBest))

\* phase 1 of find_transaction: the positions whose reference equals att_ref
RECURSIVE transaction_ref_matches(_, _, _)
transaction_ref_matches(att_ref, transactions, k) ==
    IF k > Len(transactions) THEN <<>>
    ELSE LET tx_ref == get_transaction_reference(transactions[k])
         IN  (IF ~IsNone(tx_ref) /\ tx_ref = att_ref THEN <<k>> ELSE <<>>)
             \o transaction_ref_matches(att_ref, transactions, k + 1)

\* the update of best, best_score and second_best in find_transaction, by
\* the score of transactions[k]; a raising match_score ends the call
transaction_update(k, score, acc) ==
    IF score = TypeError THEN [acc EXCEPT !.raised = TRUE]
    ELSE IF score > acc.best_score
    THEN [best |-> k, best_score |-> score,
          second_best |-> acc.best_score, raised |-> FALSE]
    ELSE IF score > acc.second_best
    THEN [acc EXCEPT !.second_best = score]
    ELSE acc

\* the loop body of find_transaction that scores the candidates that carry
\* a reference too
transaction_step_anchor_only(attachment, transactions, att_ref, k, acc) ==
    IF ~IsNone(att_ref)
    THEN acc
    ELSE transaction_update(k, match_score(transactions[k], attachment), acc)

\* one pass of the loop of find_transaction, on transactions[k]
transaction_step(attachment, transactions, att_ref, k, acc) ==
    IF ~IsNone(att_ref) \/ ~IsNone(get_transaction_reference(transactions[k]))
    THEN acc
    ELSE transaction_update(k, match_score(transactions[k], attachment), acc)

\* phase 2 of find_transaction: the loop over transactions[k..], from the locals acc
RECURSIVE transaction_scan(_, _, _, _, _)
transaction_scan(attachment, transactions, att_ref, k, acc) ==
    IF k > Len(transactions) \/ acc.raised THEN acc
    ELSE transaction_scan(attachment, transactions, att_ref, k + 1,
                          transaction_step(attachment, transactions, att_ref, k, acc))

\* the returns of find_transaction after the loop
transaction_decision(acc) ==
    IF acc.raised THEN Exit("raise", 0, acc)
    ELSE IF acc.best = 0 THEN Exit("no best", 0, acc)
    ELSE IF acc.best_score < THRESHOLD THEN Exit("threshold", 0, acc)
    ELSE IF acc.best_score - acc.second_best < MARGIN THEN Exit("margin", 0, acc)
    ELSE Exit("best", acc.best, acc)

find_transaction(attachment, transactions) ==
    LET att_ref == get_attachment_reference(attachment)
        ref_matches == IF IsNone(att_ref) THEN <<>>
                       ELSE transaction_ref_matches(att_ref, transactions, 1)
    IN  IF Len(ref_matches) = 1 THEN Exit("reference", ref_matches[1], NoBest)
        ELSE IF Len(ref_matches) > 1 THEN Exit("ambiguous", 0, NoBest)
        ELSE transaction_decision(
                 transaction_scan(attachment, transactions, att_ref, 1, NoBest))

----------------------------------------------------------------------------
(* Inputs *)

\* YYYY-MM-DD
Date(day) == Some([form |-> "date", day |-> day, hour |-> 0, off |-> 0])

\* YYYY-MM-DDTHH:00:00
DateTime(day, hour) == Some([form |-> "naive", day |-> day, hour |-> hour, off |-> 0])

\* YYYY-MM-DDTHH:00:00+OO:00
DateTimeOffset(day, hour, off) ==
    Some([form |-> "aware", day |-> day, hour |-> hour, off |-> off])

EmptyDate == Some([form |-> "empty", day |-> 0, hour |-> 0, off |-> 0])

MalformedDate == Some([form |-> "malformed", day |-> 0, hour |-> 0, off |-> 0])

Transaction(reference, amount, date, contact) ==
    [reference |-> reference, amount |-> amount, date |-> date, contact |-> contact]

Attachment(reference, total_amount, invoicing_date, receiving_date, due_date, issuer, recipient, supplier) ==
    [data |-> Some([reference |-> reference, total_amount |-> total_amount,
                    invoicing_date |-> invoicing_date,
                    receiving_date |-> receiving_date, due_date |-> due_date,
                    issuer |-> issuer, recipient |-> recipient,
                    supplier |-> supplier])]

\* an attachment without a "data" mapping
NoDataAttachment == [data |-> None]

Ref_RF_0012 == Some(<<"R","F"," ","0","0","1","2">>)
Ref_rf12 == Some(<<"r","f","1","2">>)
Ref_12 == Some(<<"1","2">>)
Ref_34 == Some(<<"3","4">>)
Ref_0034 == Some(<<"0","0","3","4">>)
Ref_0 == Some(<<"0">>)

Name_AbcdeOy == Some(<<"A","b","c","d","e"," ","O","y">>)
Name_ABCDE == Some(<<"A","B","C","D","E">>)
Name_abcde == Some(<<"a","b","c","d","e">>)
Name_abcdef == Some(<<"a","b","c","d","e","f">>)
Name_zz == Some(<<"z","z">>)
Name_Owner == Some(ExampleCompanyOy)
Name_Empty == Some(<<>>)

\* the transactions the fixtures of Spec are made of
TxPool ==
    { Transaction(Ref_RF_0012, Some(-10000), Date(10), Name_AbcdeOy),
      Transaction(Ref_34, Some(5000), None, None),
      Transaction(Ref_0, Some(-10000), Date(14), Name_abcdef),
      Transaction(None, Some(-10000), Date(10), Name_AbcdeOy),
      Transaction(None, Some(10000), Date(10), None),
      Transaction(None, Some(-10000), DateTimeOffset(10, 0, 2), None) }

\* the attachments the fixtures of Spec are made of
AttPool ==
    { Attachment(Ref_12, Some(99999), MalformedDate, None, None, Name_zz, None, None),
      Attachment(Ref_rf12, Some(10000), Date(10), None, None, Name_ABCDE, None, None),
      Attachment(Ref_0034, Some(10000), Date(10), None, None, None, Name_ABCDE, None),
      Attachment(None, Some(10000), Date(10), None, None, Name_Owner, Name_ABCDE, None),
      Attachment(None, Some(10000), None, Date(13), None, None, None, Name_abcde),
      Attachment(None, Some(10000), None, None, Date(30), None, None, None) }

\* most (transaction, attachment) pairs in a fixture of Spec
MaxPairs == 3

\* the sequences over S of length 0..n
SeqsUpTo(S, n) == UNION {[1..k -> S] : k \in 0..n}

\* the characters and the longest string of the raw references of SpecNorm
RefAlphabet == {"R", "F", "r", "f", "0", "1", " "}

MaxRefLen == 4

\* the raw names of SpecNorm: padding, a stem, at most MaxSuffixes suffixes
MaxSuffixes == 2

NameStems == {<<>>, <<"x">>, <<"A","b">>, <<"o","y">>}

NameSuffixes ==
    { <<" ","o","y","j">>, <<" ","o","y">>, <<" ","a","b">>, <<" ","t","m","i">>,
      <<" ","O","y">>, <<" "," ","a","b">> }

RECURSIVE Concat(_)
Concat(ss) == IF ss = <<>> THEN <<>> ELSE Head(ss) \o Concat(Tail(ss))

RawNames ==
    { pad \o stem \o Concat(sfx) \o pad :
        pad \in {<<>>, <<" ">>}, stem \in NameStems,
        sfx \in SeqsUpTo(NameSuffixes, MaxSuffixes) }

RawInputs ==
    {None} \cup {Some(r) : r \in SeqsUpTo(RefAlphabet, MaxRefLen) \cup RawNames}

\* the scorer inputs of SpecScore: the day gaps 0..MaxGap cover every tier of
\* date_score and the first gap beyond the last tier
MaxGap == 21

ScoreAmounts == {None, Some(0), Some(-10000), Some(10000), Some(10001), Some(10100), Some(10101)}

ScoreTxDates ==
    { None, MalformedDate, Date(0), Date(MaxGap), DateTime(0, 12),
      DateTimeOffset(0, 0, 2) }

ScoreAttDates ==
    {None, EmptyDate, MalformedDate, DateTimeOffset(1, 0, 0)}
    \cup {Date(d) : d \in 0..MaxGap}
    \cup {DateTime(d, 6) : d \in 0..MaxGap}

ScoreNames == {None, Name_Empty, Name_Owner, Name_ABCDE, Name_zz}

ScoreTxs ==
    { Transaction(None, amount, date, contact) :
        amount \in ScoreAmounts, date \in ScoreTxDates,
        contact \in {None, Name_AbcdeOy, Name_abcdef} }

ScoreAtts ==
    {NoDataAttachment}
    \cup { Attachment(None, None, Date(0), None, None, None, Name_ABCDE, None) }
    \cup { Attachment(None, Some(10000), invoicing, None, None, None, Name_ABCDE, None) :
             invoicing \in ScoreAttDates }
    \cup { Attachment(None, Some(10000), invoicing, receiving, due, None, None, None) :
             invoicing \in {None, EmptyDate, MalformedDate},
             receiving \in {None, EmptyDate, Date(0)},
             due \in {None, Date(3)} }
    \cup { Attachment(None, Some(10000), Date(0), None, None, issuer, recipient, supplier) :
             issuer \in ScoreNames, recipient \in ScoreNames, supplier \in ScoreNames }

----------------------------------------------------------------------------
(* State machines.                                                         *)
(* Every function of the module is pure: an action is one call, and the    *)
(* state keeps the arguments and what the call returned.                   *)

\* most successive applications of normalize_ref to its own result
MaxApplications == 2

NotScored == [fn |-> "none", value |-> 0]

\* no call made yet
NotCalled == [anchor |-> 0, frame |-> Exit("none", 0, NoBest)]

IdleNorm == raw = None /\ ref_out = <<>> /\ name_out = None

IdleScore ==
    /\ tx = Transaction(None, None, None, None)
    /\ att = NoDataAttachment
    /\ scored = NotScored

IdleMatch == txs = <<>> /\ atts = <<>> /\ fa = NotCalled /\ ft = NotCalled

\* -- the normalisers --

InitNorm ==
    /\ raw \in RawInputs
    /\ ref_out = <<>>
    /\ name_out = None
    /\ IdleScore
    /\ IdleMatch

\* normalize_ref(raw), then normalize_ref of the previous result
NormalizeRef ==
    /\ Len(ref_out) < MaxApplications
    /\ ref_out' = Append(ref_out,
                         normalize_ref(IF ref_out = <<>> THEN raw
                                       ELSE ref_out[Len(ref_out)]))
    /\ UNCHANGED <<raw, name_out, tx, att, scored, txs, atts, fa, ft>>

\* normalize_name(raw)
NormalizeName ==
    /\ name_out' = Some(normalize_name(raw))
    /\ UNCHANGED <<raw, ref_out, tx, att, scored, txs, atts, fa, ft>>

NextNorm == NormalizeRef \/ NormalizeName

SpecNorm == InitNorm /\ [][NextNorm]_vars

\* -- the scorers --

InitScore ==
    /\ tx \in ScoreTxs
    /\ att \in ScoreAtts
    /\ scored = NotScored
    /\ IdleNorm
    /\ IdleMatch

AmountScore ==
    /\ scored' = [fn |-> "amount_score", value |-> amount_score(tx, att)]
    /\ UNCHANGED <<raw, ref_out, name_out, tx, att, txs, atts, fa, ft>>

DateScore ==
    /\ scored' = [fn |-> "date_score", value |-> date_score(tx, att)]
    /\ UNCHANGED <<raw, ref_out, name_out, tx, att, txs, atts, fa, ft>>

NameScore ==
    /\ scored' = [fn |-> "name_score", value |-> name_score(tx, att)]
    /\ UNCHANGED <<raw, ref_out, name_out, tx, att, txs, atts, fa, ft>>

MatchScore ==
    /\ scored' = [fn |-> "match_score", value |-> match_score(tx, att)]
    /\ UNCHANGED <<raw, ref_out, name_out, tx, att, txs, atts, fa, ft>>

NextScore == AmountScore \/ DateScore \/ NameScore \/ MatchScore

SpecScore == InitScore /\ [][NextScore]_vars

\* -- the matchers --

Init ==
    /\ txs \in SeqsUpTo(TxPool, MaxPairs)
    /\ atts \in SeqsUpTo(AttPool, MaxPairs)
    /\ Len(txs) * Len(atts) <= MaxPairs
    /\ fa = NotCalled
    /\ ft = NotCalled
    /\ IdleNorm
    /\ IdleScore

\* find_attachment(txs[i], atts), the one call of the run
FindAttachment ==
    /\ fa = NotCalled /\ ft = NotCalled
    /\ \E i \in 1..Len(txs) :
          fa' = [anchor |-> i, frame |-> find_attachment(txs[i], atts)]
    /\ UNCHANGED <<raw, ref_out, name_out, tx, att, scored, txs, atts, ft>>

\* find_transaction(atts[j], txs), the one call of the run
FindTransaction ==
    /\ fa = NotCalled /\ ft = NotCalled
    /\ \E j \in 1..Len(atts) :
          ft' = [anchor |-> j, frame |-> find_transaction(atts[j], txs)]
    /\ UNCHANGED <<raw, ref_out, name_out, tx, att, scored, txs, atts, fa>>

Next == FindAttachment \/ FindTransaction

Spec == Init /\ [][Next]_vars

\* -- the round trip: the opposite matcher, called on the candidate that the
\*    first call returned --

\* find_transaction(a, txs) for the attachment a that find_attachment returned
MirrorTransaction ==
    /\ fa # NotCalled /\ ft = NotCalled
    /\ ~fa.frame.raised /\ fa.frame.result # 0
    /\ ft' = [anchor |-> fa.frame.result,
              frame |-> find_transaction(atts[fa.frame.result], txs)]
    /\ UNCHANGED <<raw, ref_out, name_out, tx, att, scored, txs, atts, fa>>

\* find_attachment(t, atts) for the transaction t that find_transaction returned
MirrorAttachment ==
    /\ ft # NotCalled /\ fa = NotCalled
    /\ ~ft.frame.raised /\ ft.frame.result # 0
    /\ fa' = [anchor |-> ft.frame.result,
              frame |-> find_attachment(txs[ft.frame.result], atts)]
    /\ UNCHANGED <<raw, ref_out, name_out, tx, att, scored, txs, atts, ft>>

NextMirror ==
    FindAttachment \/ FindTransaction \/ MirrorTransaction \/ MirrorAttachment

SpecMirror == Init /\ [][NextMirror]_vars

----------------------------------------------------------------------------
(* Properties of the matchers, checked under Spec *)

Called(c) == c.anchor # 0

\* the call returned the candidate at position k of its list
Returned(c, k) == Called(c) /\ ~c.frame.raised /\ k # 0 /\ c.frame.result = k

\* the call returned None
ReturnedNone(c) == Called(c) /\ ~c.frame.raised /\ c.frame.result = 0

TxRef(i) == get_transaction_reference(txs[i])

AttRef(j) == get_attachment_reference(atts[j])

Score(i, j) == match_score(txs[i], atts[j])

\* the positions of atts whose normalized reference is that of txs[i]
AttsWithRefOf(i) == {k \in 1..Len(atts) : AttRef(k) = TxRef(i)}

\* the positions of txs whose normalized reference is that of atts[j]
TxsWithRefOf(j) == {k \in 1..Len(txs) : TxRef(k) = AttRef(j)}

\* C1: an anchor with a normalized reference and exactly one candidate with
\* an equal normalized reference gets that candidate, whatever the other
\* fields of the anchor and of the candidates are
C1_ReferenceAuthoritative ==
    /\ Called(fa) /\ ~IsNone(TxRef(fa.anchor))
                  /\ Cardinality(AttsWithRefOf(fa.anchor)) = 1
          => \E k \in AttsWithRefOf(fa.anchor) : Returned(fa, k)
    /\ Called(ft) /\ ~IsNone(AttRef(ft.anchor))
                  /\ Cardinality(TxsWithRefOf(ft.anchor)) = 1
          => \E k \in TxsWithRefOf(ft.anchor) : Returned(ft, k)

\* find_attachment returned the one candidate with the reference of the
\* anchor, written in another format, among several candidates, although
\* match_score of the pair is 0.0
C1_Witness ==
    /\ Called(fa) /\ ~IsNone(TxRef(fa.anchor)) /\ Len(atts) > 1
    /\ \E k \in 1..Len(atts) :
          /\ AttsWithRefOf(fa.anchor) = {k}
          /\ Returned(fa, k)
          /\ Score(fa.anchor, k) = 0
          /\ DataOf(atts[k]).reference # txs[fa.anchor].reference

\* C2: an anchor with a normalized reference and zero, or two or more,
\* candidates with an equal normalized reference gets None; it is never
\* matched heuristically
C2_ReferencedAnchorNeverGuessed ==
    /\ Called(fa) /\ ~IsNone(TxRef(fa.anchor))
                  /\ Cardinality(AttsWithRefOf(fa.anchor)) # 1
          => ReturnedNone(fa)
    /\ Called(ft) /\ ~IsNone(AttRef(ft.anchor))
                  /\ Cardinality(TxsWithRefOf(ft.anchor)) # 1
          => ReturnedNone(ft)

\* find_attachment returned None for a referenced anchor whose reference no
\* candidate carries, although a reference-less candidate scores 9.0
C2_Witness ==
    /\ Called(fa) /\ ~IsNone(TxRef(fa.anchor))
    /\ AttsWithRefOf(fa.anchor) = {}
    /\ \E k \in 1..Len(atts) : IsNone(AttRef(k)) /\ Score(fa.anchor, k) = 90
    /\ ReturnedNone(fa)

\* candidate c of atts is acceptable for the reference-less anchor txs[i]
AcceptableAtt(i, c) ==
    /\ IsNone(AttRef(c))
    /\ Score(i, c) >= THRESHOLD
    /\ \A k \in 1..Len(atts) :
          k # c /\ IsNone(AttRef(k)) => Score(i, c) - Score(i, k) >= MARGIN

\* candidate c of txs is acceptable for the reference-less anchor atts[j]
AcceptableTx(j, c) ==
    /\ IsNone(TxRef(c))
    /\ Score(c, j) >= THRESHOLD
    /\ \A k \in 1..Len(txs) :
          k # c /\ IsNone(TxRef(k)) => Score(c, j) - Score(k, j) >= MARGIN

\* C3: for an anchor without normalized reference the call returns candidate
\* c if and only if c has no normalized reference, scores at least 3.5 and
\* scores at least 1.0 more than every other reference-less candidate; in
\* every other case it returns None
C3_HeuristicAcceptance ==
    /\ Called(fa) /\ IsNone(TxRef(fa.anchor))
          => /\ ~fa.frame.raised
             /\ \A c \in 1..Len(atts) :
                   fa.frame.result = c <=> AcceptableAtt(fa.anchor, c)
             /\ fa.frame.result \in 0..Len(atts)
    /\ Called(ft) /\ IsNone(AttRef(ft.anchor))
          => /\ ~ft.frame.raised
             /\ \A c \in 1..Len(txs) :
                   ft.frame.result = c <=> AcceptableTx(ft.anchor, c)
             /\ ft.frame.result \in 0..Len(txs)

\* the statement of C3 for the calls in which no match_score raises
HeuristicAcceptanceWhenScored ==
    /\ Called(fa) /\ IsNone(TxRef(fa.anchor)) /\ ~fa.frame.raised
          => /\ \A c \in 1..Len(atts) :
                   fa.frame.result = c <=> AcceptableAtt(fa.anchor, c)
             /\ fa.frame.result \in 0..Len(atts)
    /\ Called(ft) /\ IsNone(AttRef(ft.anchor)) /\ ~ft.frame.raised
          => /\ \A c \in 1..Len(txs) :
                   ft.frame.result = c <=> AcceptableTx(ft.anchor, c)
             /\ ft.frame.result \in 0..Len(txs)

\* the permutations of 1..n that swap two neighbouring positions; every
\* permutation is a product of these, and the fixtures hold every list over
\* the pools, so an outcome that no swap changes is the same in every order
Swaps(n) ==
    { [k \in 1..n |-> IF k = x THEN x + 1 ELSE IF k = x + 1 THEN x ELSE k] :
        x \in 1..(n - 1) }

\* the list whose position k holds s[p[k]]
Permuted(s, p) == [k \in 1..Len(s) |-> s[p[k]]]

\* frame g, of a call on the list permuted by p, has the outcome of frame f:
\* both raise, both return None, or both return the same candidate
SameOutcome(f, g, p) ==
    /\ g.raised = f.raised
    /\ ~f.raised => /\ g.result = 0 <=> f.result = 0
                    /\ g.result # 0 => p[g.result] = f.result

\* C4: the outcome of find_attachment and of find_transaction is the same
\* for every order of the candidate list
C4_OrderIndependent ==
    /\ Called(fa) =>
          \A p \in Swaps(Len(atts)) :
             SameOutcome(fa.frame,
                         find_attachment(txs[fa.anchor], Permuted(atts, p)), p)
    /\ Called(ft) =>
          \A p \in Swaps(Len(txs)) :
             SameOutcome(ft.frame,
                         find_transaction(atts[ft.anchor], Permuted(txs, p)), p)

\* find_attachment returned, by score, a candidate that is not the first of
\* three, the runner-up with a positive score coming after it in the list
C4_Witness ==
    /\ Called(fa) /\ Len(atts) = 3
    /\ fa.frame.exit = "best" /\ fa.frame.result = 2
    /\ fa.frame.second_best > 0
    /\ Score(fa.anchor, 3) = fa.frame.second_best
    /\ Score(fa.anchor, 1) < fa.frame.second_best

TxCompetes(k, i, j) ==
    IF ~IsNone(AttRef(j)) THEN TxRef(k) = AttRef(j)
    ELSE /\ IsNone(TxRef(k))
         /\ Score(k, j) = TypeError \/ Score(i, j) - Score(k, j) < MARGIN

\* atts[k] competes with atts[j] for txs[i]
AttCompetes(k, i, j) ==
    IF ~IsNone(TxRef(i)) THEN AttRef(k) = TxRef(i)
    ELSE /\ IsNone(AttRef(k))
         /\ Score(i, k) = TypeError \/ Score(i, j) - Score(i, k) < MARGIN

NeverBelowThreshold(c) ==
    /\ c.frame.exit # "threshold"
    /\ Called(c) /\ ~c.frame.raised /\ c.frame.best # 0
          => /\ c.frame.best_score >= THRESHOLD
             /\ c.frame.exit \in {"margin", "best"}

\* C10: every non-zero match_score is at least 3.6 (looked at for every pair
\* of a fixture, once, before the call), so a heuristic phase that
\* ends with a best candidate has best_score >= THRESHOLD: no call leaves by
\* the threshold check, only the margin check turns a best candidate into None
C10_ThresholdNeverRejects ==
    /\ ~Called(fa) /\ ~Called(ft) =>
          \A i \in 1..Len(txs), j \in 1..Len(atts) :
             LET score == Score(i, j)
             IN  score = TypeError \/ score = 0 \/ score >= 36
    /\ NeverBelowThreshold(fa)
    /\ NeverBelowThreshold(ft)

\* a heuristic phase ended with a best candidate of the lowest score there
\* is, 3.6, and the call returned it
C10_Witness ==
    /\ Called(fa)
    /\ fa.frame.exit = "best"
    /\ fa.frame.best_score = 36
    /\ fa.frame.result = fa.frame.best

----------------------------------------------------------------------------
(* Properties of the scorers, checked under SpecScore *)

HasBothNames ==
    ~IsNone(get_transaction_name(tx)) /\ ~IsNone(get_attachment_counterparty(att))

\* what C6 says match_score(tx, att) is
GatedSum ==
    IF \/ amount_score(tx, att) # 10
       \/ date_score(tx, att) = 0
       \/ HasBothNames /\ name_score(tx, att) = 0
    THEN 0
    ELSE 3 * amount_score(tx, att) + 3 * date_score(tx, att) + 3 * name_score(tx, att)

\* C6: match_score is 0.0 when amount_score is not 1.0, or date_score is 0.0,
\* or both names are present and name_score is 0.0; in every other case it
\* is 3 * amount_score + 3 * date_score + 3 * name_score, and at most 9.0
C6_MatchScoreGates ==
    scored.fn = "match_score" => scored.value = GatedSum /\ scored.value \in 0..90

\* the statement of C6 for the pairs whose date_score does not raise
MatchScoreGatesWhenDated ==
    scored.fn = "match_score" /\ date_score(tx, att) # TypeError
        => scored.value = GatedSum /\ scored.value \in 0..90

\* C9: date_score and match_score return a number in their range for every
\* combination of absent, malformed and ISO-8601 dates, with or without UTC
\* offset, and 0.0 when a date is absent or malformed
C9_ScorersNeverRaise ==
    /\ scored.fn = "date_score" =>
          /\ scored.value \in {0, 2, 5, 8, 10}
          /\ IsNone(get_transaction_date(tx)) \/ IsNone(get_attachment_date(att))
                => scored.value = 0
    /\ scored.fn = "match_score" =>
          /\ scored.value \in 0..90
          /\ IsNone(get_transaction_date(tx)) \/ IsNone(get_attachment_date(att))
                => scored.value = 0

----------------------------------------------------------------------------
(* Properties of the normalisers, checked under SpecNorm *)

\* C7: normalize_ref(x) is absent, or normalize_ref(normalize_ref(x)) is
\* normalize_ref(x)
C7_NormalizeRefIdempotent ==
    Len(ref_out) >= 2 => IsNone(ref_out[1]) \/ ref_out[2] = ref_out[1]

\* s without the first of the suffixes k.. that it ends with, re-trimmed
RECURSIVE WithoutFirstSuffix(_, _)
WithoutFirstSuffix(s, k) ==
    IF k > Len(Suffixes) THEN s
    ELSE IF EndsWith(s, Suffixes[k]) THEN Strip(DropLast(s, Len(Suffixes[k])))
    ELSE WithoutFirstSuffix(s, k + 1)

\* what C8 says normalize_name(name) is
SingleSuffixName(name) ==
    IF IsNone(name) \/ Val(name) = <<>> THEN None
    ELSE LET s == WithoutFirstSuffix(StrLower(Strip(Val(name))), 1)
         IN  IF s = <<>> THEN None ELSE Some(s)

\* C8: normalize_name removes at most one trailing suffix, the first of
\* " oyj", " oy", " ab", " tmi" that the trimmed, lowercased name ends with,
\* and returns the re-trimmed remainder unchanged
C8_SingleSuffixRemoved ==
    ~IsNone(name_out) => Val(name_out) = SingleSuffixName(raw)

=============================================================================
